---- MODULE Spec2Model ----
(***************************************************************************)
(* A model of the translate_citizen utilities:                             *)
(*   process/main.go  - translateFile / processLine (substitution pass)    *)
(*   init/main.go     - parseINIFile (key/value extractor)                 *)
(*   findSC/main.go   - detectFileEncoding and the secondary scans         *)
(* Text is modelled as a sequence of code points, each code point a TLA+    *)
(* string; raw buffers are sequences of byte values 0..255.                *)
(***************************************************************************)
EXTENDS Integers, Sequences, FiniteSets, TLC

VARIABLES
    tool,           \* which program runs: "process", "init" or "findSC"
    target,         \* content of the file at filepath (process)
    orig,           \* content of that file when translateFile was first called
    translationMap, \* the map[string]string handed to translateFile
    pc,             \* position of the running function
    lines,          \* the tokens the bufio.Scanner yields for the open file
    lineNumber,     \* lineNumber local of the scan loop
    stats,          \* *TranslationStats of the running call
    temp,           \* content written to the temp file (NoFile when absent)
    werr,           \* bufio.Writer's sticky error
    result,         \* what the function returned: "none", "ok" or "error"
    hist,           \* one record per processLine call of the running call
    rerun,          \* TRUE once translateFile has been called a second time
    firstOut,       \* content the first successful call left in the target
    entries,        \* parseINIFile's entries map
    content,        \* findSC: the raw byte buffer
    verdict,        \* findSC: detectFileEncoding's return value
    flagged,        \* findSC: the rows the secondary scan printed
    source,         \* process main: content of ../source/global.ini
    backup,         \* process main: content of bak/global_bak.ini
    atStart,         \* process main: output and backup contents when main started
    step1           \* process main: what backupFile returned ("none" before it ran)

vars == <<tool, target, orig, translationMap, pc, lines, lineNumber, stats, temp,
          werr, result, hist, rerun, firstOut, entries, content, verdict, flagged,
          source, backup, atStart, step1>>

(***************************************************************************)
(* Bounds of the model.                                                    *)
(***************************************************************************)
MaxFileLen == 4
MaxIniLen == 6
MaxBufLen == 3
MaxRunLen == 2
MaxTripLines == 2

(***************************************************************************)
(* Code points.                                                            *)
(***************************************************************************)
BOM == "BOM"
LF == "LF"
CR == "CR"
TAB == "TAB"
\* the content of a file that does not exist (no text holds this code point)
NoFile == <<"NoFile">>

Min(S) == CHOOSE x \in S : \A y \in S : x <= y
Max(S) == CHOOSE x \in S : \A y \in S : x >= y

SeqsUpTo(A, n) == UNION {[1..m -> A] : m \in 0..n}

(***************************************************************************)
(* strings package                                                         *)
(***************************************************************************)
\* unicode.IsSpace restricted to the code points of the model: U+FEFF is not
\* white space.
IsSpace(c) == c \in {" ", TAB, LF, CR}

TrimSpace(s) ==
    LET ns == {i \in 1..Len(s) : ~IsSpace(s[i])}
    IN  IF ns = {} THEN <<>> ELSE SubSeq(s, Min(ns), Max(ns))

HasPrefix(s, p) == Len(s) >= Len(p) /\ SubSeq(s, 1, Len(p)) = p

TrimPrefix(s, p) == IF HasPrefix(s, p) THEN SubSeq(s, Len(p) + 1, Len(s)) ELSE s

\* strings.Index(s, c) for a one-code-point c: 0-based, -1 when absent
Index(s, c) ==
    LET at == {i \in 1..Len(s) : s[i] = c}
    IN  IF at = {} THEN -1 ELSE Min(at) - 1

(***************************************************************************)
(* bufio.Scanner with the default split function bufio.ScanLines           *)
(***************************************************************************)
RECURSIVE SplitLines(_, _, _)
SplitLines(data, lf, cr) ==
    IF data = <<>> THEN <<>>
    ELSE LET i == Index(data, lf)
             drop(tok) == IF Len(tok) > 0 /\ tok[Len(tok)] = cr
                          THEN SubSeq(tok, 1, Len(tok) - 1) ELSE tok
         IN  IF i >= 0
             THEN <<drop(SubSeq(data, 1, i))>> \o SplitLines(SubSeq(data, i + 2, Len(data)), lf, cr)
             ELSE <<drop(data)>>

\* the tokens of a text of code points
ScanLines(data) == SplitLines(data, LF, CR)

\* the tokens of a byte buffer: '\n' is 10, '\r' is 13
ScanByteLines(data) == SplitLines(data, 10, 13)

(***************************************************************************)
(* process/main.go                                                         *)
(***************************************************************************)
ZeroStats == [TotalLines |-> 0, Translated |-> 0, Unchanged |-> 0, Skipped |-> 0, NotFound |-> 0]

isEmptyOrComment(line) ==
    LET trimmed == TrimSpace(line)
    IN  trimmed = <<>> \/ HasPrefix(trimmed, <<"#">>) \/ HasPrefix(trimmed, <<";">>)

\* processLine keeping the text before "=" as it stands (mutant)
processLine_KeepsPadding(line, tm, st) ==
    LET trimmed == TrimSpace(line)
        index == Index(line, "=")
        key == TrimSpace(SubSeq(line, 1, index))
    IN  IF trimmed = <<>> \/ HasPrefix(trimmed, <<"#">>) \/ HasPrefix(trimmed, <<";">>)
        THEN [ret |-> line, stats |-> [st EXCEPT !.Skipped = @ + 1]]
        ELSE IF index = -1
        THEN [ret |-> line, stats |-> [st EXCEPT !.Unchanged = @ + 1]]
        ELSE IF key = <<>>
        THEN [ret |-> line, stats |-> [st EXCEPT !.Unchanged = @ + 1]]
        ELSE IF key \in DOMAIN tm
        THEN [ret |-> SubSeq(line, 1, index) \o <<"=">> \o tm[key],
              stats |-> [st EXCEPT !.Translated = @ + 1]]
        ELSE [ret |-> line, stats |-> [st EXCEPT !.NotFound = @ + 1, !.Unchanged = @ + 1]]

\* processLine counting an empty key as skipped (mutant)
processLine_EmptyKeySkipped(line, tm, st) ==
    LET trimmed == TrimSpace(line)
        index == Index(line, "=")
        key == TrimSpace(SubSeq(line, 1, index))
    IN  IF trimmed = <<>> \/ HasPrefix(trimmed, <<"#">>) \/ HasPrefix(trimmed, <<";">>)
        THEN [ret |-> line, stats |-> [st EXCEPT !.Skipped = @ + 1]]
        ELSE IF index = -1
        THEN [ret |-> line, stats |-> [st EXCEPT !.Unchanged = @ + 1]]
        ELSE IF key = <<>>
        THEN [ret |-> line, stats |-> [st EXCEPT !.Skipped = @ + 1]]
        ELSE IF key \in DOMAIN tm
        THEN [ret |-> key \o <<"=">> \o tm[key], stats |-> [st EXCEPT !.Translated = @ + 1]]
        ELSE [ret |-> line, stats |-> [st EXCEPT !.NotFound = @ + 1, !.Unchanged = @ + 1]]

\* processLine counting an absent key as not-found only (mutant)
processLine_NotFoundOnly(line, tm, st) ==
    LET trimmed == TrimSpace(line)
        index == Index(line, "=")
        key == TrimSpace(SubSeq(line, 1, index))
    IN  IF trimmed = <<>> \/ HasPrefix(trimmed, <<"#">>) \/ HasPrefix(trimmed, <<";">>)
        THEN [ret |-> line, stats |-> [st EXCEPT !.Skipped = @ + 1]]
        ELSE IF index = -1
        THEN [ret |-> line, stats |-> [st EXCEPT !.Unchanged = @ + 1]]
        ELSE IF key = <<>>
        THEN [ret |-> line, stats |-> [st EXCEPT !.Unchanged = @ + 1]]
        ELSE IF key \in DOMAIN tm
        THEN [ret |-> key \o <<"=">> \o tm[key], stats |-> [st EXCEPT !.Translated = @ + 1]]
        ELSE [ret |-> line, stats |-> [st EXCEPT !.NotFound = @ + 1]]

\* processLine: the returned line and the stats it leaves behind
processLine(line, tm, st) ==
    LET trimmed == TrimSpace(line)
        index == Index(line, "=")
        key == TrimSpace(SubSeq(line, 1, index))
    IN  IF trimmed = <<>> \/ HasPrefix(trimmed, <<"#">>) \/ HasPrefix(trimmed, <<";">>)
        THEN [ret |-> line, stats |-> [st EXCEPT !.Skipped = @ + 1]]
        ELSE IF index = -1
        THEN [ret |-> line, stats |-> [st EXCEPT !.Unchanged = @ + 1]]
        ELSE IF key = <<>>
        THEN [ret |-> line, stats |-> [st EXCEPT !.Unchanged = @ + 1]]
        ELSE IF key \in DOMAIN tm
        THEN [ret |-> key \o <<"=">> \o tm[key], stats |-> [st EXCEPT !.Translated = @ + 1]]
        ELSE [ret |-> line, stats |-> [st EXCEPT !.NotFound = @ + 1, !.Unchanged = @ + 1]]

\* the byte-order-mark branch taken on every line (mutant)
HasBOMBranch_AnyLine(n, line) == HasPrefix(line, <<BOM>>)

\* lines 162-163: the branch that strips and re-prepends the byte-order-mark
HasBOMBranch(n, line) == n = 1 /\ HasPrefix(line, <<BOM>>)

\* one iteration of the scan loop: the processLine call with what is written
LoopBody(n, line, tm, st) ==
    LET counted == [st EXCEPT !.TotalLines = @ + 1]
        arg == IF HasBOMBranch(n, line) THEN TrimPrefix(line, <<BOM>>) ELSE line
        r == processLine(arg, tm, counted)
    IN  [orig |-> line, arg |-> arg, ret |-> r.ret,
         out |-> IF HasBOMBranch(n, line) THEN <<BOM>> \o r.ret ELSE r.ret,
         pre |-> counted, post |-> r.stats]

FileChars == {"k", "=", " ", "#", BOM, LF, CR}
Files == SeqsUpTo(FileChars, MaxFileLen)
Keys == {<<"k">>}
Values == {<<"x">>, <<LF>>}
Maps == UNION {[D -> Values] : D \in SUBSET Keys}

InitProcess ==
    /\ tool = "process"
    /\ target \in Files
    /\ orig = target
    /\ translationMap \in Maps
    /\ pc = "call"
    /\ lines = <<>>
    /\ lineNumber = 0
    /\ stats = ZeroStats
    /\ temp = NoFile
    /\ werr = FALSE
    /\ result = "none"
    /\ hist = <<>>
    /\ rerun = FALSE
    /\ firstOut = NoFile
    /\ entries = <<>>
    /\ content = <<>>
    /\ verdict = "none"
    /\ flagged = <<>>
    /\ source = NoFile
    /\ backup = NoFile
    /\ atStart = [output |-> NoFile, backup |-> NoFile]
    /\ step1 = "none"

others == <<tool, orig, translationMap, entries, content, verdict, flagged,
            source, backup, atStart, step1>>

\* every return path: the deferred os.Remove(tempPath) and inputFile.Close()
Return(res) ==
    /\ pc' = "returned"
    /\ result' = res
    /\ temp' = NoFile

\* lines 137-141: os.Open(filepath) succeeds
Open ==
    /\ tool = "process" /\ pc = "call"
    /\ pc' = "opened"
    /\ lines' = ScanLines(target)
    /\ UNCHANGED <<target, lineNumber, stats, temp, werr, result, hist, rerun, firstOut>>
    /\ UNCHANGED others

\* lines 138-140: os.Open fails
OpenFail ==
    /\ tool = "process" /\ pc = "call"
    /\ Return("error")
    /\ UNCHANGED <<target, lines, lineNumber, stats, werr, hist, rerun, firstOut>>
    /\ UNCHANGED others

\* lines 144-154: os.CreateTemp succeeds, locals are initialised
CreateTemp ==
    /\ tool = "process" /\ pc = "opened"
    /\ pc' = "loop"
    /\ temp' = <<>>
    /\ stats' = ZeroStats
    /\ lineNumber' = 0
    /\ werr' = FALSE
    /\ hist' = <<>>
    /\ UNCHANGED <<target, lines, result, rerun, firstOut>>
    /\ UNCHANGED others

\* lines 145-147: os.CreateTemp fails
CreateTempFail ==
    /\ tool = "process" /\ pc = "opened"
    /\ Return("error")
    /\ UNCHANGED <<target, lines, lineNumber, stats, werr, hist, rerun, firstOut>>
    /\ UNCHANGED others

\* lines 156-184: one iteration; the write may fail, which bufio.Writer remembers
ScanLine ==
    /\ tool = "process" /\ pc = "loop"
    /\ lineNumber < Len(lines)
    /\ LET b == LoopBody(lineNumber + 1, lines[lineNumber + 1], translationMap, stats)
       IN  /\ lineNumber' = lineNumber + 1
           /\ stats' = b.post
           /\ hist' = Append(hist, b)
           /\ \E fails \in BOOLEAN :
                IF werr \/ fails
                THEN werr' = TRUE /\ temp' = temp
                ELSE werr' = FALSE /\ temp' = temp \o b.out \o <<LF>>
    /\ UNCHANGED <<target, pc, lines, result, rerun, firstOut>>
    /\ UNCHANGED others

\* line 156 and 186: Scan() returns false at the end of the input, Err() is nil
ScanEnd ==
    /\ tool = "process" /\ pc = "loop"
    /\ lineNumber = Len(lines)
    /\ pc' = "flush"
    /\ UNCHANGED <<target, lines, lineNumber, stats, temp, werr, result, hist, rerun, firstOut>>
    /\ UNCHANGED others

\* lines 186-189: Scan() returns false on a read error (or a token too long)
ScanError ==
    /\ tool = "process" /\ pc = "loop"
    /\ Return("error")
    /\ UNCHANGED <<target, lines, lineNumber, stats, werr, hist, rerun, firstOut>>
    /\ UNCHANGED others

\* writer.Flush() with its error dropped (mutant)
Flush_ErrorDropped ==
    /\ tool = "process" /\ pc = "flush"
    /\ pc' = "rename"
    /\ UNCHANGED <<target, lines, lineNumber, stats, temp, werr, result, hist, rerun, firstOut>>
    /\ UNCHANGED others

\* lines 192-196: writer.Flush() succeeds
Flush ==
    /\ tool = "process" /\ pc = "flush"
    /\ ~werr
    /\ pc' = "rename"
    /\ UNCHANGED <<target, lines, lineNumber, stats, temp, werr, result, hist, rerun, firstOut>>
    /\ UNCHANGED others

\* lines 192-195: writer.Flush() reports the sticky error or fails itself
FlushFail ==
    /\ tool = "process" /\ pc = "flush"
    /\ werr' = TRUE
    /\ Return("error")
    /\ UNCHANGED <<target, lines, lineNumber, stats, hist, rerun, firstOut>>
    /\ UNCHANGED others

\* lines 199-203: os.Rename replaces the target in one step
Rename ==
    /\ tool = "process" /\ pc = "rename"
    /\ target' = temp
    /\ firstOut' = IF rerun THEN firstOut ELSE temp
    /\ Return("ok")
    /\ UNCHANGED <<lines, lineNumber, stats, werr, hist, rerun>>
    /\ UNCHANGED others

\* lines 199-201: os.Rename fails
RenameFail ==
    /\ tool = "process" /\ pc = "rename"
    /\ Return("error")
    /\ UNCHANGED <<target, lines, lineNumber, stats, werr, hist, rerun, firstOut>>
    /\ UNCHANGED others

\* translateFile is called again on the file it rewrote, with the same map
CallAgain ==
    /\ tool = "process" /\ pc = "returned" /\ result = "ok" /\ ~rerun
    /\ rerun' = TRUE
    /\ pc' = "call"
    /\ result' = "none"
    /\ UNCHANGED <<target, lines, lineNumber, stats, temp, werr, hist, firstOut>>
    /\ UNCHANGED others

NextProcess ==
    \/ Open
    \/ OpenFail
    \/ CreateTemp
    \/ CreateTempFail
    \/ ScanLine
    \/ ScanEnd
    \/ ScanError
    \/ Flush
    \/ FlushFail
    \/ Rename
    \/ RenameFail
    \/ CallAgain

SpecProcess == InitProcess /\ [][NextProcess]_vars

(***************************************************************************)
(* init/main.go: parseINIFile                                              *)
(***************************************************************************)
NoMap == "nil"
EmptyMap == <<>>

\* entries[key] = value
Store(m, key, value) ==
    [k \in (DOMAIN m) \cup {key} |-> IF k = key THEN value ELSE m[k]]

\* line 86: value := strings.TrimSpace(line[index+1:])
ValueOf(line, index) == TrimSpace(SubSeq(line, index + 2, Len(line)))

\* a key that is already present keeps its first value (mutant)
ParseStep_FirstWins(n, token, m) ==
    LET unmarked == IF n = 1 /\ HasPrefix(token, <<BOM>>)
                    THEN TrimPrefix(token, <<BOM>>) ELSE token
        line == TrimSpace(unmarked)
        index == Index(line, "=")
        key == TrimSpace(SubSeq(line, 1, index))
    IN  IF line = <<>> \/ HasPrefix(line, <<"#">>) \/ HasPrefix(line, <<";">>)
        THEN [entries |-> m, warned |-> FALSE]
        ELSE IF index = -1
        THEN [entries |-> m, warned |-> TRUE]
        ELSE IF key = <<>>
        THEN [entries |-> m, warned |-> TRUE]
        ELSE IF key \in DOMAIN m
        THEN [entries |-> m, warned |-> FALSE]
        ELSE [entries |-> Store(m, key, ValueOf(line, index)), warned |-> FALSE]

\* the byte-order-mark left on the first line (mutant)
ParseStep_KeepsMark(n, token, m) ==
    LET line == TrimSpace(token)
        index == Index(line, "=")
        key == TrimSpace(SubSeq(line, 1, index))
    IN  IF line = <<>> \/ HasPrefix(line, <<"#">>) \/ HasPrefix(line, <<";">>)
        THEN [entries |-> m, warned |-> FALSE]
        ELSE IF index = -1
        THEN [entries |-> m, warned |-> TRUE]
        ELSE IF key = <<>>
        THEN [entries |-> m, warned |-> TRUE]
        ELSE [entries |-> Store(m, key, ValueOf(line, index)), warned |-> FALSE]

\* lines 59-95: one iteration of parseINIFile's loop on the scanner's token
ParseStep(n, token, m) ==
    LET unmarked == IF n = 1 /\ HasPrefix(token, <<BOM>>)
                    THEN TrimPrefix(token, <<BOM>>) ELSE token
        line == TrimSpace(unmarked)
        index == Index(line, "=")
        key == TrimSpace(SubSeq(line, 1, index))
    IN  IF line = <<>> \/ HasPrefix(line, <<"#">>) \/ HasPrefix(line, <<";">>)
        THEN [entries |-> m, warned |-> FALSE]
        ELSE IF index = -1
        THEN [entries |-> m, warned |-> TRUE]
        ELSE IF key = <<>>
        THEN [entries |-> m, warned |-> TRUE]
        ELSE [entries |-> Store(m, key, ValueOf(line, index)), warned |-> FALSE]

IniChars == {"k", "=", " ", "#", BOM, LF}
IniFiles == SeqsUpTo(IniChars, MaxIniLen)

InitExtract ==
    /\ tool = "init"
    /\ target \in IniFiles
    /\ orig = target
    /\ translationMap = EmptyMap
    /\ pc = "call"
    /\ lines = <<>>
    /\ lineNumber = 0
    /\ stats = ZeroStats
    /\ temp = NoFile
    /\ werr = FALSE
    /\ result = "none"
    /\ hist = <<>>
    /\ rerun = FALSE
    /\ firstOut = NoFile
    /\ entries = NoMap
    /\ content = <<>>
    /\ verdict = "none"
    /\ flagged = <<>>
    /\ source = NoFile
    /\ backup = NoFile
    /\ atStart = [output |-> NoFile, backup |-> NoFile]
    /\ step1 = "none"

iniFrame == <<tool, target, orig, translationMap, stats, temp, werr, rerun, firstOut,
              content, verdict, flagged, source, backup, atStart, step1>>

\* lines 49-57: os.Open succeeds, entries is made, the scanner is set up
IniOpen ==
    /\ tool = "init" /\ pc = "call"
    /\ pc' = "loop"
    /\ lines' = ScanLines(target)
    /\ entries' = EmptyMap
    /\ lineNumber' = 0
    /\ UNCHANGED <<result, hist>>
    /\ UNCHANGED iniFrame

\* lines 50-52: os.Open fails
IniOpenFail ==
    /\ tool = "init" /\ pc = "call"
    /\ pc' = "returned"
    /\ result' = "error"
    /\ UNCHANGED <<lines, lineNumber, entries, hist>>
    /\ UNCHANGED iniFrame

\* lines 59-95: one iteration
IniScanLine ==
    /\ tool = "init" /\ pc = "loop"
    /\ lineNumber < Len(lines)
    /\ LET r == ParseStep(lineNumber + 1, lines[lineNumber + 1], entries)
       IN  /\ entries' = r.entries
           /\ hist' = Append(hist, [orig |-> lines[lineNumber + 1], warned |-> r.warned])
    /\ lineNumber' = lineNumber + 1
    /\ UNCHANGED <<pc, lines, result>>
    /\ UNCHANGED iniFrame

\* lines 59, 97-101: the input is exhausted, entries is returned
IniScanEnd ==
    /\ tool = "init" /\ pc = "loop"
    /\ lineNumber = Len(lines)
    /\ pc' = "returned"
    /\ result' = "ok"
    /\ UNCHANGED <<lines, lineNumber, entries, hist>>
    /\ UNCHANGED iniFrame

\* lines 97-99: the scanner stopped on an error, nil is returned
IniScanError ==
    /\ tool = "init" /\ pc = "loop"
    /\ pc' = "returned"
    /\ result' = "error"
    /\ entries' = NoMap
    /\ lines' = <<>>
    /\ lineNumber' = 0
    /\ hist' = <<>>
    /\ UNCHANGED iniFrame

NextExtract ==
    \/ IniOpen
    \/ IniOpenFail
    \/ IniScanLine
    \/ IniScanEnd
    \/ IniScanError

SpecExtract == InitExtract /\ [][NextExtract]_vars

(***************************************************************************)
(* process/main.go: main, backupFile, copyFile, loadTranslationMap         *)
(***************************************************************************)
\* backupFile removing the old backup before it looks for its source (mutant)
backupFile_RemoveFirst(src, dst, removeFails, renameFails) ==
    IF dst # NoFile /\ removeFails
    THEN [src |-> src, dst |-> dst, err |-> TRUE]
    ELSE IF src = NoFile
    THEN [src |-> src, dst |-> NoFile, err |-> TRUE]
    ELSE IF renameFails
    THEN [src |-> src, dst |-> NoFile, err |-> TRUE]
    ELSE [src |-> NoFile, dst |-> src, err |-> FALSE]

\* backupFile(src, dst): the files it leaves and whether it returned an error;
\* removeFails and renameFails are the outcomes of os.Remove and os.Rename
backupFile(src, dst, removeFails, renameFails) ==
    IF src = NoFile
    THEN [src |-> src, dst |-> dst, err |-> TRUE]
    ELSE IF dst # NoFile /\ removeFails
    THEN [src |-> src, dst |-> dst, err |-> TRUE]
    ELSE IF renameFails
    THEN [src |-> src, dst |-> NoFile, err |-> TRUE]
    ELSE [src |-> NoFile, dst |-> src, err |-> FALSE]

\* copyFile(src, dst): the destination it leaves and whether it returned an
\* error; os.Create truncates, io.Copy may stop after `written` code points
copyFile(src, dst, openFails, createFails, copyFails, written) ==
    IF src = NoFile \/ openFails
    THEN [dst |-> dst, err |-> TRUE]
    ELSE IF createFails
    THEN [dst |-> dst, err |-> TRUE]
    ELSE IF copyFails
    THEN [dst |-> SubSeq(src, 1, written), err |-> TRUE]
    ELSE [dst |-> src, err |-> FALSE]

RunChars == {"k", "=", LF}
RunFiles == SeqsUpTo(RunChars, MaxRunLen)
PrevOutputs == {<<"k", "=", "o", LF>>}
PrevBackups == {<<"k", "=", "b", LF>>}

InitRun ==
    /\ tool = "process"
    /\ target \in PrevOutputs \cup {NoFile}
    /\ backup \in PrevBackups \cup {NoFile}
    /\ source \in RunFiles \cup {NoFile}
    /\ atStart = [output |-> target, backup |-> backup]
    /\ step1 = "none"
    /\ orig = NoFile
    /\ translationMap = NoMap
    /\ pc = "step1"
    /\ lines = <<>>
    /\ lineNumber = 0
    /\ stats = ZeroStats
    /\ temp = NoFile
    /\ werr = FALSE
    /\ result = "none"
    /\ hist = <<>>
    /\ rerun = FALSE
    /\ firstOut = NoFile
    /\ entries = <<>>
    /\ content = <<>>
    /\ verdict = "none"
    /\ flagged = <<>>

runFrame == <<tool, lines, lineNumber, stats, temp, werr, hist, rerun, firstOut,
              entries, content, verdict, flagged, atStart>>

\* lines 25-30: step 1, an error of backupFile is logged and main continues
Step1 ==
    /\ tool = "process" /\ pc = "step1"
    /\ \E removeFails, renameFails \in BOOLEAN :
          LET r == backupFile(target, backup, removeFails, renameFails)
          IN  /\ target' = r.src
              /\ backup' = r.dst
              /\ step1' = IF r.err THEN "error" ELSE "ok"
    /\ pc' = "step2"
    /\ UNCHANGED <<source, orig, translationMap, result>>
    /\ UNCHANGED runFrame

\* lines 32-36: step 2, an error of copyFile ends the process (log.Fatalf)
Step2 ==
    /\ tool = "process" /\ pc = "step2"
    /\ \E openFails, createFails, copyFails \in BOOLEAN :
       \E written \in 0..(IF source = NoFile THEN 0 ELSE Len(source)) :
          LET r == copyFile(source, target, openFails, createFails, copyFails, written)
          IN  /\ target' = r.dst
              /\ orig' = IF r.err THEN orig ELSE r.dst
              /\ pc' = IF r.err THEN "exit" ELSE "step3"
              /\ result' = IF r.err THEN "fatal" ELSE result
    /\ UNCHANGED <<source, backup, step1, translationMap>>
    /\ UNCHANGED runFrame

\* lines 38-43: step 3, loadTranslationMap returns the decoded map or (nil, err)
\* and an error ends the process
Step3 ==
    /\ tool = "process" /\ pc = "step3"
    /\ \E fails \in BOOLEAN : \E loaded \in Maps :
          /\ translationMap' = IF fails THEN NoMap ELSE loaded
          /\ pc' = IF fails THEN "exit" ELSE "call"
          /\ result' = IF fails THEN "fatal" ELSE result
    /\ UNCHANGED <<target, source, backup, step1, orig>>
    /\ UNCHANGED runFrame

\* lines 46-63: translateFile has returned; an error ends the process,
\* otherwise the statistics are printed and main returns
Step4Done ==
    /\ tool = "process" /\ pc = "returned"
    /\ pc' = "exit"
    /\ result' = IF result = "ok" THEN "done" ELSE "fatal"
    /\ UNCHANGED <<target, source, backup, step1, orig, translationMap>>
    /\ UNCHANGED runFrame

NextRun ==
    \/ Step1
    \/ Step2
    \/ Step3
    \/ Open
    \/ OpenFail
    \/ CreateTemp
    \/ CreateTempFail
    \/ ScanLine
    \/ ScanEnd
    \/ ScanError
    \/ Flush
    \/ FlushFail
    \/ Rename
    \/ RenameFail
    \/ Step4Done

SpecRun == InitRun /\ [][NextRun]_vars

(***************************************************************************)
(* init then process on one file: the map parseINIFile builds from a file  *)
(* is written by writeJSON, loaded by loadTranslationMap and applied to    *)
(* the same file                                                           *)
(***************************************************************************)
\* the text of a file whose lines are given, each ended by a line feed
RECURSIVE JoinLines(_)
JoinLines(texts) ==
    IF texts = <<>> THEN <<>> ELSE Head(texts) \o <<LF>> \o JoinLines(Tail(texts))

TripLines ==
    {<<>>, <<"k">>, <<"=", "k">>, <<"#", "k", "=", "k">>, <<"k", "=">>,
     <<"k", "=", "k">>, <<" ", "k", " ", "=", " ", "j", " ">>, <<"j", "=", "=", "k">>}

TripFiles ==
    {mark \o JoinLines(ls) : mark \in {<<>>, <<BOM>>}, ls \in SeqsUpTo(TripLines, MaxTripLines)}

InitTrip ==
    /\ tool = "init"
    /\ target \in TripFiles
    /\ orig = target
    /\ translationMap = EmptyMap
    /\ pc = "call"
    /\ lines = <<>>
    /\ lineNumber = 0
    /\ stats = ZeroStats
    /\ temp = NoFile
    /\ werr = FALSE
    /\ result = "none"
    /\ hist = <<>>
    /\ rerun = FALSE
    /\ firstOut = NoFile
    /\ entries = NoMap
    /\ content = <<>>
    /\ verdict = "none"
    /\ flagged = <<>>
    /\ source = NoFile
    /\ backup = NoFile
    /\ atStart = [output |-> NoFile, backup |-> NoFile]
    /\ step1 = "none"

\* init main lines 30-39 and process main lines 39-46: the entries are written
\* as JSON and decoded again (which gives back the same strings), and
\* translateFile is called with them
LoadEntries ==
    /\ tool = "init" /\ pc = "returned" /\ result = "ok"
    /\ tool' = "process"
    /\ translationMap' = entries
    /\ pc' = "call"
    /\ result' = "none"
    /\ lines' = <<>>
    /\ lineNumber' = 0
    /\ hist' = <<>>
    /\ UNCHANGED <<target, orig, stats, temp, werr, rerun, firstOut, entries, content,
                   verdict, flagged, source, backup, atStart, step1>>

NextTrip ==
    \/ IniOpen
    \/ IniOpenFail
    \/ IniScanLine
    \/ IniScanEnd
    \/ IniScanError
    \/ LoadEntries
    \/ Open
    \/ OpenFail
    \/ CreateTemp
    \/ CreateTempFail
    \/ ScanLine
    \/ ScanEnd
    \/ ScanError
    \/ Flush
    \/ FlushFail
    \/ Rename
    \/ RenameFail

SpecTrip == InitTrip /\ [][NextTrip]_vars

(***************************************************************************)
(* findSC/main.go (the second file of src/init/main.go, from line 146)     *)
(***************************************************************************)
InRange(b, lo, hi) == lo <= b /\ b <= hi

\* unicode/utf8: the width of the well-formed sequence at position i, 0 when
\* the bytes there are not well-formed UTF-8
SeqWidth(s, i) ==
    LET b0 == s[i]
        b(j) == IF i + j <= Len(s) THEN s[i + j] ELSE -1
        cont(x) == InRange(x, 128, 191)
    IN  IF b0 < 128 THEN 1
        ELSE IF InRange(b0, 194, 223) THEN (IF cont(b(1)) THEN 2 ELSE 0)
        ELSE IF b0 = 224 THEN (IF InRange(b(1), 160, 191) /\ cont(b(2)) THEN 3 ELSE 0)
        ELSE IF InRange(b0, 225, 236) \/ InRange(b0, 238, 239)
             THEN (IF cont(b(1)) /\ cont(b(2)) THEN 3 ELSE 0)
        ELSE IF b0 = 237 THEN (IF InRange(b(1), 128, 159) /\ cont(b(2)) THEN 3 ELSE 0)
        ELSE IF b0 = 240
             THEN (IF InRange(b(1), 144, 191) /\ cont(b(2)) /\ cont(b(3)) THEN 4 ELSE 0)
        ELSE IF InRange(b0, 241, 243)
             THEN (IF cont(b(1)) /\ cont(b(2)) /\ cont(b(3)) THEN 4 ELSE 0)
        ELSE IF b0 = 244
             THEN (IF InRange(b(1), 128, 143) /\ cont(b(2)) /\ cont(b(3)) THEN 4 ELSE 0)
        ELSE 0

RECURSIVE ValidFrom(_, _)
ValidFrom(s, i) ==
    IF i > Len(s) THEN TRUE
    ELSE IF SeqWidth(s, i) = 0 THEN FALSE
    ELSE ValidFrom(s, i + SeqWidth(s, i))

\* utf8.Valid
Valid(s) == ValidFrom(s, 1)

RuneError == 65533

RuneAt(s, i) ==
    LET w == SeqWidth(s, i)
    IN  IF w = 1 THEN s[i]
        ELSE IF w = 2 THEN (s[i] - 192) * 64 + (s[i + 1] - 128)
        ELSE IF w = 3 THEN (s[i] - 224) * 4096 + (s[i + 1] - 128) * 64 + (s[i + 2] - 128)
        ELSE IF w = 4 THEN (s[i] - 240) * 262144 + (s[i + 1] - 128) * 4096
                            + (s[i + 2] - 128) * 64 + (s[i + 3] - 128)
        ELSE RuneError

RECURSIVE RunesFrom(_, _)
RunesFrom(s, i) ==
    IF i > Len(s) THEN <<>>
    ELSE <<RuneAt(s, i)>> \o RunesFrom(s, i + (IF SeqWidth(s, i) = 0 THEN 1 ELSE SeqWidth(s, i)))

\* []rune(line): a byte that is not well-formed UTF-8 becomes U+FFFD
Runes(s) == RunesFrom(s, 1)

\* decoder.Transform(decoded, content, true) of an x/text decoder: bytes that are
\* not of the encoding are written as U+FFFD and no error is reported; decoded
\* holds three bytes per source byte and is never too short; every source byte
\* or pair writes at least one byte, so n > 0 exactly when content is not empty.
Transform(src) == [written |-> Len(src) > 0, err |-> FALSE]

Big5Lead(b) == InRange(b, 161, 249)
Big5Trail(b) == InRange(b, 64, 126) \/ InRange(b, 161, 254)
GBKLead(b) == InRange(b, 129, 254)
GBKTrail(b) == InRange(b, 64, 254)

\* lines 251-268
isBIG5Encoded(buf) ==
    LET t == Transform(buf)
    IN  IF t.err THEN FALSE
        ELSE IF \E i \in 1..(Len(buf) - 1) : Big5Lead(buf[i]) /\ Big5Trail(buf[i + 1])
        THEN t.written
        ELSE FALSE

\* lines 271-287
isGBKEncoded(buf) ==
    LET t == Transform(buf)
    IN  IF t.err THEN FALSE
        ELSE IF \E i \in 1..(Len(buf) - 1) : GBKLead(buf[i]) /\ GBKTrail(buf[i + 1])
        THEN t.written
        ELSE FALSE

\* lines 208-248
detectFileEncoding(buf) ==
    LET hasGBKRange == \E i \in 1..Len(buf) : InRange(buf[i], 129, 254)
        hasBIG5Range == \E i \in 1..Len(buf) : InRange(buf[i], 161, 249)
    IN  IF Len(buf) >= 3 /\ buf[1] = 239 /\ buf[2] = 187 /\ buf[3] = 191 THEN "UTF-8"
        ELSE IF Valid(buf) /\ ~hasGBKRange /\ ~hasBIG5Range THEN "UTF-8"
        ELSE IF isBIG5Encoded(buf) THEN "BIG5"
        ELSE IF isGBKEncoded(buf) THEN "GB2312/GBK"
        ELSE "UTF-8"

\* lines 349-360: 国 门 长 开 车 贝 见 气 无 专
simplifiedOnly == {22269, 38376, 38271, 24320, 36710, 36125, 35265, 27668, 26080, 19987}

UTF8Window == 15

\* lines 370-385: the rows printed for one line
RowsOfLine(lineNum, line) ==
    LET runes == Runes(line)
        hits == {i \in 1..Len(runes) : runes[i] \in simplifiedOnly}
        row(i) ==
            LET start == IF (i - 1) - UTF8Window < 0 THEN 0 ELSE (i - 1) - UTF8Window
                end == IF (i - 1) + UTF8Window > Len(runes) THEN Len(runes)
                       ELSE (i - 1) + UTF8Window
            IN  [line |-> lineNum, rune |-> runes[i], context |-> SubSeq(runes, start + 1, end),
                 i |-> i - 1, runes |-> runes]
        RECURSIVE upTo(_)
        upTo(i) == IF i = 0 THEN <<>>
                   ELSE upTo(i - 1) \o (IF i \in hits THEN <<row(i)>> ELSE <<>>)
    IN  upTo(Len(runes))

RECURSIVE RowsFrom(_, _)
RowsFrom(toks, n) ==
    IF n > Len(toks) THEN <<>> ELSE RowsOfLine(n, toks[n]) \o RowsFrom(toks, n + 1)

\* lines 338-395
scanUTF8ForSimplified(buf) == RowsFrom(ScanByteLines(buf), 1)

\* simplifiedchinese.GBK's decode table for the two-byte sequences the sample
\* bytes can form, keyed by lead * 256 + trail
GBKTable ==
    (33089 :> 19972) @@ (33153 :> 20118) @@ (33179 :> 20188) @@ (33211 :> 20253) @@
    (33213 :> 20259) @@ (33215 :> 20265) @@ (33253 :> 20344) @@ (33263 :> 20362) @@
    (39745 :> 27738) @@ (39809 :> 27866) @@ (39835 :> 27923) @@ (39867 :> 27989) @@
    (39869 :> 27991) @@ (39871 :> 27995) @@ (39909 :> 28056) @@ (39919 :> 28083) @@
    (47937 :> 31812) @@ (48001 :> 31882) @@ (48027 :> 31925) @@ (48059 :> 25442) @@
    (48061 :> 21796) @@ (48063 :> 35938) @@ (48101 :> 35826) @@ (48111 :> 20249) @@
    (48449 :> 32056) @@ (48513 :> 32121) @@ (48539 :> 32147) @@ (48571 :> 20132) @@
    (48573 :> 27975) @@ (48575 :> 23047) @@ (48613 :> 34249) @@ (48623 :> 26020) @@
    (48961 :> 32252) @@ (49025 :> 32316) @@ (49051 :> 32344) @@ (49083 :> 28821) @@
    (49085 :> 25335) @@ (49087 :> 38752) @@ (49125 :> 22446) @@ (49135 :> 21281) @@
    (58689 :> 37643) @@ (58753 :> 37707) @@ (58779 :> 37733) @@ (58811 :> 23524) @@
    (58813 :> 35120) @@ (58815 :> 36423) @@ (58853 :> 37003) @@ (58863 :> 23651) @@
    (61249 :> 39024) @@ (61313 :> 39142) @@ (61339 :> 39170) @@ (61371 :> 38168) @@
    (61373 :> 38173) @@ (61375 :> 38175) @@ (61413 :> 38245) @@ (61423 :> 38258)

\* simplifiedchinese.GBK.NewDecoder().Transform: ASCII passes, 0x80 is the euro
\* sign, a lead 0x81-0xFE with a trail 0x40-0x7E or 0x80-0xFE is looked up, and
\* any other byte becomes U+FFFD on its own
RECURSIVE GBKDecodeFrom(_, _)
GBKDecodeFrom(buf, i) ==
    IF i > Len(buf) THEN <<>>
    ELSE IF buf[i] < 128 THEN <<buf[i]>> \o GBKDecodeFrom(buf, i + 1)
    ELSE IF buf[i] = 128 THEN <<8364>> \o GBKDecodeFrom(buf, i + 1)
    ELSE IF buf[i] = 255 \/ i = Len(buf) THEN <<RuneError>> \o GBKDecodeFrom(buf, i + 1)
    ELSE IF InRange(buf[i + 1], 64, 126) \/ InRange(buf[i + 1], 128, 254)
    THEN <<GBKTable[buf[i] * 256 + buf[i + 1]]>> \o GBKDecodeFrom(buf, i + 2)
    ELSE <<RuneError>> \o GBKDecodeFrom(buf, i + 1)

GBKDecode(buf) == GBKDecodeFrom(buf, 1)

GBKWindow == 10

\* lines 314-331: the rows printed for one line of the decoded text
GBKRowsOfLine(lineNum, runes) ==
    LET hits == {i \in 1..Len(runes) : runes[i] >= 19968 /\ runes[i] <= 40959}
        row(i) ==
            LET start == IF (i - 1) - GBKWindow < 0 THEN 0 ELSE (i - 1) - GBKWindow
                end == IF (i - 1) + GBKWindow > Len(runes) THEN Len(runes)
                       ELSE (i - 1) + GBKWindow
            IN  [line |-> lineNum, rune |-> runes[i], context |-> SubSeq(runes, start + 1, end),
                 i |-> i - 1, runes |-> runes]
        RECURSIVE upTo(_)
        upTo(i) == IF i = 0 THEN <<>>
                   ELSE upTo(i - 1) \o (IF i \in hits THEN <<row(i)>> ELSE <<>>)
    IN  upTo(Len(runes))

RECURSIVE GBKRowsFrom(_, _)
GBKRowsFrom(toks, n) ==
    IF n > Len(toks) THEN <<>> ELSE GBKRowsOfLine(n, toks[n]) \o GBKRowsFrom(toks, n + 1)

\* lines 290-335: the buffer is decoded, the text is scanned line by line (a
\* code point of the decoded text stands for its UTF-8 bytes, so []rune(line)
\* gives the line back)
scanAndPrintSimplifiedChars(buf) == GBKRowsFrom(ScanByteLines(GBKDecode(buf)), 1)

\* "ASD_Country=" 国 家 "\n" in UTF-8
CountryBuf ==
    <<65, 83, 68, 95, 67, 111, 117, 110, 116, 114, 121, 61, 229, 155, 189, 229, 174, 182, 10>>

ByteSamples == {10, 65, 129, 155, 187, 189, 191, 229, 239, 255}

\* the byte-order-mark, 国 and sixteen "A" on one line, in UTF-8
LongUTF8Buf == <<239, 187, 191, 229, 155, 189>> \o [k \in 1..16 |-> 65] \o <<10>>

\* the sequence 0x81 0x41 and eleven "A" on one line
LongGBKBuf == <<129, 65>> \o [k \in 1..11 |-> 65] \o <<10>>

Buffers == SeqsUpTo(ByteSamples, MaxBufLen) \cup {CountryBuf, LongUTF8Buf, LongGBKBuf}

InitFindSC ==
    /\ tool = "findSC"
    /\ content \in Buffers
    /\ pc = "call"
    /\ verdict = "none"
    /\ flagged = <<>>
    /\ source = NoFile
    /\ backup = NoFile
    /\ atStart = [output |-> NoFile, backup |-> NoFile]
    /\ step1 = "none"
    /\ result = "none"
    /\ target = <<>>
    /\ orig = <<>>
    /\ translationMap = EmptyMap
    /\ lines = <<>>
    /\ lineNumber = 0
    /\ stats = ZeroStats
    /\ temp = NoFile
    /\ werr = FALSE
    /\ hist = <<>>
    /\ rerun = FALSE
    /\ firstOut = NoFile
    /\ entries = NoMap

findFrame == <<tool, target, orig, translationMap, lines, lineNumber, stats, temp, werr,
               hist, rerun, firstOut, entries, content, source, backup, atStart, step1>>

\* lines 174-178: os.ReadFile fails, the program exits with status 1
ReadFileFail ==
    /\ tool = "findSC" /\ pc = "call"
    /\ pc' = "done"
    /\ result' = "error"
    /\ UNCHANGED <<verdict, flagged>>
    /\ UNCHANGED findFrame

\* lines 174-182: the file is read and classified
Detect ==
    /\ tool = "findSC" /\ pc = "call"
    /\ verdict' = detectFileEncoding(content)
    /\ pc' = "scan"
    /\ UNCHANGED <<result, flagged>>
    /\ UNCHANGED findFrame

\* lines 194-196: the UTF-8 verdict runs scanUTF8ForSimplified
ScanUTF8 ==
    /\ tool = "findSC" /\ pc = "scan"
    /\ verdict = "UTF-8"
    /\ flagged' = scanUTF8ForSimplified(content)
    /\ pc' = "done"
    /\ result' = "ok"
    /\ UNCHANGED verdict
    /\ UNCHANGED findFrame

\* lines 184-191: the GB2312/GBK verdict runs scanAndPrintSimplifiedChars
ScanGBK ==
    /\ tool = "findSC" /\ pc = "scan"
    /\ verdict = "GB2312/GBK"
    /\ flagged' = scanAndPrintSimplifiedChars(content)
    /\ pc' = "done"
    /\ result' = "ok"
    /\ UNCHANGED verdict
    /\ UNCHANGED findFrame

\* lines 197-204: any other verdict runs scanBIG5File or scanMixedEncodingFile,
\* which print no row of a character with its context
ScanOther ==
    /\ tool = "findSC" /\ pc = "scan"
    /\ verdict \notin {"UTF-8", "GB2312/GBK"}
    /\ pc' = "done"
    /\ result' = "ok"
    /\ UNCHANGED <<verdict, flagged>>
    /\ UNCHANGED findFrame

NextFindSC ==
    \/ ReadFileFail
    \/ Detect
    \/ ScanUTF8
    \/ ScanGBK
    \/ ScanOther

SpecFindSC == InitFindSC /\ [][NextFindSC]_vars

(***************************************************************************)
(* Statements about the substitution pass                                  *)
(***************************************************************************)
\* the content the running (or last) call of translateFile found in the file
InputOfCall == IF rerun THEN firstOut ELSE orig

\* position (1-based) of the first "=" of a line, 0 when it has none
FirstEq(line) ==
    IF \E i \in 1..Len(line) : line[i] = "="
    THEN CHOOSE i \in 1..Len(line) : line[i] = "=" /\ \A j \in 1..(i - 1) : line[j] # "="
    ELSE 0

NonSpace(line) == {i \in 1..Len(line) : line[i] \notin {" ", TAB, CR, LF}}

IsBlank(line) == NonSpace(line) = {}

IsComment(line) == ~IsBlank(line) /\ line[Min(NonSpace(line))] \in {"#", ";"}

\* the trimmed text before the first "=" (empty when there is no "=")
KeyText(line) ==
    LET before == {i \in NonSpace(line) : i < FirstEq(line)}
    IN  IF before = {} THEN <<>> ELSE SubSeq(line, Min(before), Max(before))

IsMalformed(line) ==
    ~IsBlank(line) /\ ~IsComment(line) /\ (FirstEq(line) = 0 \/ KeyText(line) = <<>>)

IsValid(line) ==
    ~IsBlank(line) /\ ~IsComment(line) /\ FirstEq(line) > 0 /\ KeyText(line) # <<>>

Bump(st, fields) ==
    [f \in DOMAIN st |-> IF f \in fields THEN st[f] + 1 ELSE st[f]]

C2_UnchangedLine ==
    \A n \in 1..Len(hist) :
        LET h == hist[n]
        IN  /\ (IsBlank(h.arg) \/ IsComment(h.arg))
                => h.out = h.orig /\ h.post = Bump(h.pre, {"Skipped"})
            /\ IsMalformed(h.arg)
                => h.out = h.orig /\ h.post = Bump(h.pre, {"Unchanged"})
            /\ (IsValid(h.arg) /\ KeyText(h.arg) \notin DOMAIN translationMap)
                => h.out = h.orig /\ h.post = Bump(h.pre, {"Unchanged", "NotFound"})

\* C2 witness: one call has emitted a malformed line and a line with an absent key
C2_Witness ==
    /\ pc = "returned" /\ result = "ok"
    /\ \E n \in 1..Len(hist) : IsMalformed(hist[n].arg)
    /\ \E n \in 1..Len(hist) :
        IsValid(hist[n].arg) /\ KeyText(hist[n].arg) \notin DOMAIN translationMap

\* C3: the file a successful translateFile leaves has exactly as many lines as
\* the input, in the same order: it is what was emitted for input line 1, for
\* input line 2, ... each ended by one line feed, and reads back as that many lines.
C3_SameLines ==
    (pc = "returned" /\ result = "ok")
        => LET inl == ScanLines(InputOfCall)
               outl == ScanLines(target)
           IN  /\ Len(hist) = Len(inl)
               /\ \A i \in 1..Len(inl) : hist[i].orig = inl[i]
               /\ target = JoinLines([i \in 1..Len(hist) |-> hist[i].out])
               /\ Len(outl) = Len(inl)

\* C4: at every point of the pass TotalLines = Translated + Unchanged + Skipped
\* and NotFound <= Unchanged.
C4_StatsSum ==
    tool = "process"
        => /\ stats.TotalLines = stats.Translated + stats.Unchanged + stats.Skipped
           /\ stats.NotFound <= stats.Unchanged
           /\ stats.TotalLines = lineNumber

\* C4 witness: a prefix with a skipped line and a key that was not found
C4_Witness ==
    stats.TotalLines >= 2 /\ stats.NotFound >= 1 /\ stats.Skipped >= 1

\* C5: when line 1 begins with the byte-order-mark, processLine is given the
\* text without it and the emitted line 1 is the mark followed by processLine's
\* result, whatever the line is; for every other line translateFile hands the
\* line to processLine as it is and emits the result as it is, so the mark is
\* neither prepended to nor stripped from any other line.
C5_MarkOnLineOne ==
    /\ \A n \in 1..Len(hist) :
        LET h == hist[n]
        IN  IF n = 1 /\ Len(h.orig) > 0 /\ h.orig[1] = BOM
            THEN /\ h.arg = Tail(h.orig)
                 /\ h.out = <<BOM>> \o h.ret
                 /\ (IsValid(h.arg) /\ KeyText(h.arg) \in DOMAIN translationMap)
                        => h.out = <<BOM>> \o KeyText(h.arg) \o <<"=">>
                                       \o translationMap[KeyText(h.arg)]
                 /\ ~(IsValid(h.arg) /\ KeyText(h.arg) \in DOMAIN translationMap)
                        => h.out = h.orig
            ELSE h.arg = h.orig /\ h.out = h.ret
    /\ (pc = "returned" /\ result = "ok" /\ Len(InputOfCall) > 0 /\ InputOfCall[1] = BOM)
        => Len(target) > 0 /\ target[1] = BOM

\* C5 witness: line 1 carried the mark and was translated
C5_Witness ==
    /\ pc = "returned" /\ result = "ok" /\ ~rerun
    /\ Len(hist) >= 1
    /\ Len(hist[1].orig) > 0
    /\ hist[1].orig[1] = BOM
    /\ hist[1].ret # hist[1].arg

\* C6: the target file always holds either the content the call found or the
\* complete translation of it, and holds the former whenever the call fails.
C6_Atomic ==
    tool = "process"
        => /\ \/ target = InputOfCall
              \/ /\ pc = "returned" /\ result = "ok"
                 /\ Len(hist) = Len(ScanLines(InputOfCall))
                 /\ target = JoinLines([i \in 1..Len(hist) |-> hist[i].out])
           /\ result = "error" => target = InputOfCall
           /\ (pc = "returned" /\ result = "ok")
                => target = JoinLines([i \in 1..Len(hist) |-> hist[i].out])

\* C6 witness: a write failed half-way through, Flush reported it, the call
\* returned an error
C6_Witness ==
    /\ pc = "returned" /\ result = "error" /\ werr
    /\ Len(hist) >= 2
    /\ hist[1].ret # hist[1].orig

\* C8: a second pass with the same map leaves the file as the first pass left it.
C8_Idempotent ==
    (rerun /\ pc = "returned" /\ result = "ok") => target = firstOut

(***************************************************************************)
(* Statements about the extractor                                          *)
(***************************************************************************)
\* line n as the line parser sees it: line 1 without its byte-order-mark
Seen(n) ==
    IF n = 1 /\ Len(hist[1].orig) > 0 /\ hist[1].orig[1] = BOM
    THEN Tail(hist[1].orig) ELSE hist[n].orig

\* the trimmed text after the first "="
ValueText(line) ==
    LET after == {i \in NonSpace(line) : i > FirstEq(line)}
    IN  IF after = {} THEN <<>> ELSE SubSeq(line, Min(after), Max(after))

\* C7: after any number of lines, entries maps each key k to the trimmed text
\* after the first "=" of the last valid line scanned so far whose key is k;
\* lines that are blank, comments, without "=" or with an empty key add
\* nothing, so every key is non-empty and every key comes from a valid line.
C7_LastWriteWins ==
    (tool = "init" /\ pc \in {"loop", "returned"} /\ result # "error")
        => /\ lineNumber = Len(hist)
           /\ pc = "returned" => lineNumber = Len(ScanLines(target))
           /\ \A n \in 1..Len(hist) : hist[n].orig = ScanLines(target)[n]
           /\ \A k \in DOMAIN entries :
                /\ k # <<>>
                /\ \E n \in 1..Len(hist) :
                    /\ IsValid(Seen(n)) /\ KeyText(Seen(n)) = k
                    /\ \A later \in (n + 1)..Len(hist) :
                        ~(IsValid(Seen(later)) /\ KeyText(Seen(later)) = k)
                    /\ entries[k] = ValueText(Seen(n))
           /\ \A n \in 1..Len(hist) :
                IsValid(Seen(n)) => KeyText(Seen(n)) \in DOMAIN entries

\* C7 witness: the returned map holds a key written twice, whose last value
\* differs from the first and contains an "="
C7_Witness ==
    /\ tool = "init" /\ pc = "returned" /\ result = "ok"
    /\ \E n \in 1..Len(hist), later \in 1..Len(hist) :
        /\ n < later
        /\ IsValid(Seen(n)) /\ IsValid(Seen(later))
        /\ KeyText(Seen(n)) = KeyText(Seen(later))
        /\ ValueText(Seen(n)) # ValueText(Seen(later))
        /\ \E i \in 1..Len(ValueText(Seen(later))) : ValueText(Seen(later))[i] = "="

(***************************************************************************)
(* Statements about the encoding classifier                                *)
(***************************************************************************)
\* C9: for the UTF-8 buffer "ASD_Country=" 国 家 "\n" the classifier returns
\* UTF-8 and the secondary scan reports exactly one row: U+56FD at line 1.
C9_CountryBuffer ==
    (tool = "findSC" /\ content = CountryBuf /\ pc = "done" /\ result = "ok")
        => /\ verdict = "UTF-8"
           /\ Len(flagged) = 1
           /\ flagged[1].line = 1
           /\ flagged[1].rune = 22269

\* the number of two-byte sequences of a buffer read under the Traditional rule
\* set from position i on (ASCII bytes, lead 0xA1-0xF9 with trail 0x40-0x7E or
\* 0xA1-0xFE), -1 when a byte sequence is invalid under it
RECURSIVE TraditionalPairs(_, _)
TraditionalPairs(buf, i) ==
    IF i > Len(buf) THEN 0
    ELSE IF buf[i] < 128 THEN TraditionalPairs(buf, i + 1)
    ELSE IF i < Len(buf) /\ InRange(buf[i], 161, 249)
            /\ (InRange(buf[i + 1], 64, 126) \/ InRange(buf[i + 1], 161, 254))
         THEN LET rest == TraditionalPairs(buf, i + 2)
              IN  IF rest = -1 THEN -1 ELSE rest + 1
    ELSE -1

\* C10: the BIG5 verdict is returned only for a buffer that decodes without
\* error under the Traditional rule set and holds at least one two-byte
\* sequence; a buffer with an invalid byte sequence never gets it.
C10_Big5OnlyIfDecodes ==
    (tool = "findSC" /\ pc \in {"scan", "done"} /\ verdict = "BIG5")
        => TraditionalPairs(content, 1) >= 1

\* C11: a buffer that does not start with the byte-order-mark, does not pass the
\* UTF-8 condition (valid UTF-8 with no byte in 0x81-0xFE) and is accepted by
\* neither double-byte check gets the verdict Unknown.
C11_UnknownVerdict ==
    (/\ tool = "findSC" /\ pc \in {"scan", "done"} /\ result # "error"
     /\ ~(Len(content) >= 3 /\ content[1] = 239 /\ content[2] = 187 /\ content[3] = 191)
     /\ ~(Valid(content) /\ \A i \in 1..Len(content) : ~InRange(content[i], 129, 254))
     /\ ~isBIG5Encoded(content)
     /\ ~isGBKEncoded(content))
        => verdict = "Unknown"

\* the file translateFile leaves when every step of it succeeds
Rewritten(file, tm) ==
    LET ls == ScanLines(file)
    IN  JoinLines([i \in 1..Len(ls) |-> LoopBody(i, ls[i], tm, ZeroStats).out])

\* C12: after a run of main that was aborted by an I/O failure, output/global.ini
\* holds either the content it had before the run or a fully translated file.
C12_NoPartialOutput ==
    (tool = "process" /\ pc = "exit" /\ result = "fatal")
        => \/ target = atStart.output
           \/ /\ source # NoFile
              /\ \E tm \in Maps : target = Rewritten(source, tm)

\* C15 as stated: before step 2 of every run in which output/global.ini existed
\* at the start, bak/global_bak.ini holds the previous content of the output; and
\* backupFile with a missing source returns an error and leaves the backup alone.
C15_BackupBeforeOverwrite ==
    (tool = "process" /\ pc = "step2") =>
        /\ atStart.output # NoFile => backup = atStart.output
        /\ atStart.output = NoFile => (step1 = "error" /\ backup = atStart.backup)

\* C15 amended: before step 2, when backupFile returned nil the backup holds the
\* previous content of the output and the output is gone; when it returned an
\* error the output is untouched and the old backup is unchanged or removed
\* (main goes on to step 2 either way); with a missing source it returns an error
\* and leaves the backup alone.
C15_BackupWhenStep1Ok ==
    (tool = "process" /\ pc = "step2") =>
        /\ step1 \in {"ok", "error"}
        /\ step1 = "ok" =>
              (atStart.output # NoFile /\ backup = atStart.output /\ target = NoFile)
        /\ step1 = "error" =>
              (target = atStart.output /\ backup \in {atStart.backup, NoFile})
        /\ atStart.output = NoFile => (step1 = "error" /\ backup = atStart.backup)

C15_Witness ==
    /\ tool = "process" /\ pc = "step2" /\ step1 = "ok"
    /\ atStart.output # NoFile /\ atStart.backup # NoFile
    /\ backup = atStart.output /\ target = NoFile

\* code points max(0, i-w) through min(n-1, i+w) of the line a row was found in
WindowOf(row, w) ==
    SubSeq(row.runes, Max({0, row.i - w}) + 1, Min({Len(row.runes) - 1, row.i + w}) + 1)

\* C13: the context of every reported row is the flagged code point with up to W
\* code points on each side within its line, code points max(0, i-W) through
\* min(n-1, i+W), W being 15 in the UTF-8 scan and 10 in the GBK scan.
C13_ContextWindow ==
    (tool = "findSC" /\ pc = "done" /\ result = "ok"
     /\ verdict \in {"UTF-8", "GB2312/GBK"})
        => \A k \in 1..Len(flagged) :
              flagged[k].context
                  = WindowOf(flagged[k], IF verdict = "UTF-8" THEN 15 ELSE 10)

\* line n of a file as both programs read it: the scanner's token, without the
\* byte-order-mark when it opens line 1
LineOf(file, n) ==
    LET ls == ScanLines(file)
    IN  IF n = 1 /\ HasPrefix(ls[1], <<BOM>>) THEN Tail(ls[1]) ELSE ls[n]

ValidLines(file) == {n \in 1..Len(ScanLines(file)) : IsValid(LineOf(file, n))}

\* the trimmed value of the last valid line of the file whose key is k
LastValue(file, k) ==
    ValueText(LineOf(file, Max({n \in ValidLines(file) : KeyText(LineOf(file, n)) = k})))

====
